---- MODULE Spec2Model ----
(***************************************************************************)
(* Model of cosmos_reason1/policy/config/__init__.py: the configuration    *)
(* tree, Config.from_dict (timestamp stamping, variant resolution, merge,  *)
(* validation) and Config.validate.                                        *)
(*                                                                         *)
(* Python values.  A field whose declared type is a union is modelled by a *)
(* tagged value: Str(s), Bool(b), List(l), NoneVal.  Fields of one type    *)
(* are plain TLA+ values.  Floats are their decimal literal ("0.9").       *)
(* A dataclass instance is a record of its attributes plus `class`, the    *)
(* name of its Python class.  A dict is a function whose DOMAIN is the set *)
(* of its keys.                                                            *)
(***************************************************************************)
EXTENDS Integers, Sequences, FiniteSets, TLC

VARIABLES
    config_data,  \* the override mapping handed to from_dict (mutated by it)
    config,       \* the Config instance being built / validated
    pc,           \* position: "idle", "stamped", "resolved", "merged", "tree",
                  \*           "returned", "raised"; "object" when config is an
                  \*           object handed to config_hash only
    err,          \* the exception raised, NoError if none
    now,          \* the wall clock read by datetime.now()
    calls,        \* number of from_dict calls started on config_data
    entry,        \* config_data as it was when the current from_dict call began
    first,        \* outcome of the first from_dict call, once it has ended
    before,       \* the tree as it was when validate was entered
    hashed,       \* outcome of config_hash(config), NotHashed before the call
    validations   \* number of validate runs on config since it was built

vars == <<config_data, config, pc, err, now, calls, entry, first, before, hashed,
          validations>>

----------------------------------------------------------------------------
(* Bounds of the model *)

MaxClock == 2
MaxCalls == 2
MaxPP == 4
MaxMicro == 3
MaxShard == 2
MaxDegree == 2
MaxValidations == 2

----------------------------------------------------------------------------
(* Python values *)

Str(s) == [str |-> s]
Bool(b) == [bool |-> b]
List(l) == [list |-> l]
NoneVal == [none |-> TRUE]
IntVal(n) == [int |-> n]

isinstance_str(v) == "str" \in DOMAIN v

\* Python truthiness of a bool-or-str value
Truthy(v) ==
    IF "bool" \in DOMAIN v THEN v.bool
    ELSE IF "str" \in DOMAIN v THEN v.str # ""
    ELSE IF "list" \in DOMAIN v THEN Len(v.list) > 0
    ELSE FALSE

\* len() of a list value
len(v) == Len(v.list)

EmptyDict == [k \in {} |-> TRUE]

\* d[k] = v on a dict
Put(d, k, v) == [x \in DOMAIN d \cup {k} |-> IF x = k THEN v ELSE d[x]]

NoError == [kind |-> "none", msg |-> ""]
AssertionError(m) == [kind |-> "AssertionError", msg |-> m]
ValueError(m) == [kind |-> "ValueError", msg |-> m]
KeyError(m) == [kind |-> "KeyError", msg |-> m]
AttributeError(m) == [kind |-> "AttributeError", msg |-> m]
TypeError(m) == [kind |-> "TypeError", msg |-> m]

----------------------------------------------------------------------------
(* The default tree *)

SFTDataConfig ==
    [class |-> "SFTDataConfig",
     type |-> "sft",
     dataset_name |-> "",
     dataset_train_split |-> List(<<>>),
     dataloader_num_workers |-> 0,
     dataloader_prefetch_factor |-> NoneVal,
     system_prompt |-> ""]

GrpoConfig ==
    [class |-> "GrpoConfig",
     type |-> "grpo",
     variant |-> "grpo",
     dataset_name |-> "",
     dataset_train_split |-> List(<<>>),
     dataloader_num_workers |-> 0,
     dataloader_prefetch_factor |-> NoneVal,
     system_prompt |-> "",
     reward_function |-> List(<<>>),
     temperature |-> "0.9",
     epsilon_low |-> "0.2",
     epsilon_high |-> "0.2",
     kl_beta |-> "0.0",
     mini_batch |-> 2]

CheckpointConfig ==
    [class |-> "CheckpointConfig",
     save_freq |-> 20,
     save_mode |-> "async",
     upload_s3 |-> Bool(FALSE)]

TrainingConfig ==
    [class |-> "TrainingConfig",
     train_policy |-> SFTDataConfig,
     ckpt |-> CheckpointConfig,
     output_dir |-> "./outputs",
     timestamp |-> "",
     async_tp_enabled |-> FALSE,
     compile |-> TRUE,
     train_batch_per_replica |-> 8]

ParallelismConfig ==
    [class |-> "ParallelismConfig",
     tp_size |-> 2,
     cp_size |-> 1,
     dp_shard_size |-> -1,
     pp_size |-> 1,
     pp_micro_batch_size |-> 1,
     dp_replicate_size |-> 1]

PolicyConfig ==
    [class |-> "PolicyConfig",
     parallelism |-> ParallelismConfig,
     model_name_or_path |-> Str("Qwen/Qwen2.5-VL-7B-Instruct")]

Config ==
    [class |-> "Config",
     train |-> TrainingConfig,
     policy |-> PolicyConfig,
     redis |-> ""]

\* the attributes that hold a nested dataclass
DataclassFields == {"train", "policy", "ckpt", "parallelism", "train_policy"}

----------------------------------------------------------------------------
(* __post_init__ checks *)

\* lines 146-148 and 397-399
NormalizeWorkers(p) ==
    IF p.dataloader_num_workers <= 0
    THEN [p EXCEPT !.dataloader_prefetch_factor = NoneVal,
                   !.dataloader_num_workers = 0]
    ELSE p

\* lines 145-148
SFTDataConfig_post_init(p) == [err |-> NoError, obj |-> NormalizeWorkers(p)]

\* lines 392-399
GrpoConfig_post_init(p) ==
    IF p.variant \notin {"grpo", "dapo"}
    THEN [err |-> AssertionError("variant must be one of ['grpo', 'dapo']"), obj |-> p]
    ELSE [err |-> NoError, obj |-> NormalizeWorkers(p)]

\* the __post_init__ of the object's class
policy_post_init(p) ==
    IF p.class = "GrpoConfig" THEN GrpoConfig_post_init(p) ELSE SFTDataConfig_post_init(p)

\* CheckpointConfig.__post_init__ without the save_freq check
CheckpointConfig_post_init_NoFreq(ckpt) ==
    IF ckpt.save_mode \notin {"async", "sync"}
    THEN ValueError("Invalid save_mode")
    ELSE NoError

CheckpointConfig_post_init(ckpt) ==
    IF ckpt.save_mode \notin {"async", "sync"}
    THEN ValueError("Invalid save_mode")
    ELSE IF ckpt.save_freq <= 0
    THEN ValueError("save_freq must be greater than 0")
    ELSE NoError

TrainingConfig_post_init(train) ==
    IF CheckpointConfig_post_init(train.ckpt) # NoError
    THEN CheckpointConfig_post_init(train.ckpt)
    ELSE IF train.async_tp_enabled /\ ~train.compile
    THEN ValueError("Async tensor parallelism requires torch.compile to be enabled")
    ELSE NoError

----------------------------------------------------------------------------
(* Config.validate *)

Raise(c, e) == [err |-> e, config |-> c]

\* PipelineError without the check of the micro-batch count against pp_size
PipelineError_NoCountCheck(c) ==
    LET par == c.policy.parallelism
        batch == c.train.train_batch_per_replica
    IN  IF par.pp_size > 1
        THEN IF ~(par.pp_micro_batch_size > 0)
             THEN AssertionError("pp_micro_batch_size must be greater than 0")
             ELSE IF ~(batch % par.pp_micro_batch_size = 0)
             THEN AssertionError("train_batch must be divisible by pp_micro_batch_size")
             ELSE NoError
        ELSE NoError

\* lines 800-821: the pipeline conditions, evaluated in order
PipelineError(c) ==
    LET par == c.policy.parallelism
        batch == c.train.train_batch_per_replica
    IN  IF par.pp_size > 1
        THEN IF ~(par.pp_micro_batch_size > 0)
             THEN AssertionError("pp_micro_batch_size must be greater than 0")
             ELSE IF ~(batch % par.pp_micro_batch_size = 0)
             THEN AssertionError("train_batch must be divisible by pp_micro_batch_size")
             ELSE IF ~((batch \div par.pp_micro_batch_size) % par.pp_size = 0)
             THEN AssertionError("train_batch / pp_micro_batch_size must be divisible by pp_size")
             ELSE NoError
        ELSE NoError

\* lines 823-826: a bare string reward_function becomes a one-element list
NormalizeReward(c) ==
    IF isinstance_str(c.train.train_policy.reward_function)
    THEN [c EXCEPT !.train.train_policy.reward_function = List(<<@.str>>)]
    ELSE c

\* NormalizeSplit that loses the split name
NormalizeSplit_Drops(c) ==
    IF isinstance_str(c.train.train_policy.dataset_train_split)
    THEN [c EXCEPT !.train.train_policy.dataset_train_split = List(<<>>)]
    ELSE c

\* lines 830-833: a bare string dataset_train_split becomes a one-element list
NormalizeSplit(c) ==
    IF isinstance_str(c.train.train_policy.dataset_train_split)
    THEN [c EXCEPT !.train.train_policy.dataset_train_split = List(<<@.str>>)]
    ELSE c

\* UploadError that checks string values only, letting the boolean True pass
UploadError_StringsOnly(c) ==
    LET u == c.train.ckpt.upload_s3
    IN  IF isinstance_str(u) /\ Truthy(u) /\ u \notin {Str("final"), Str("all")}
        THEN ValueError("upload_s3 must be one of ['final', 'all'] or False")
        ELSE NoError

\* lines 834-840
UploadError(c) ==
    LET u == c.train.ckpt.upload_s3
    IN  IF Truthy(u) /\ u \notin {Str("final"), Str("all")}
        THEN ValueError("upload_s3 must be one of ['final', 'all'] or False")
        ELSE NoError

\* validate_policy with the upload_s3 check moved ahead of the policy checks
validate_policy_UploadFirst(c) ==
    LET tp == c.train.train_policy
        c6 == IF tp.type = "grpo" THEN NormalizeReward(c) ELSE c
        c7 == NormalizeSplit(c6)
    IN  IF UploadError(c) # NoError
        THEN Raise(c, UploadError(c))
        ELSE IF tp.type = "grpo" /\ "reward_function" \notin DOMAIN tp
        THEN Raise(c, AttributeError("reward_function"))
        ELSE IF tp.type = "grpo" /\ ~(len(c6.train.train_policy.reward_function) > 0)
        THEN Raise(c6, AssertionError("reward_function must be a list of reward functions"))
        ELSE Raise(c7, NoError)

\* lines 822-840: the part of validate that follows the pipeline conditions
validate_policy(c) ==
    LET tp == c.train.train_policy
        c6 == IF tp.type = "grpo" THEN NormalizeReward(c) ELSE c
        c7 == NormalizeSplit(c6)
    IN  IF tp.type = "grpo" /\ "reward_function" \notin DOMAIN tp
        THEN Raise(c, AttributeError("reward_function"))
        ELSE IF tp.type = "grpo" /\ ~(len(c6.train.train_policy.reward_function) > 0)
        THEN Raise(c6, AssertionError("reward_function must be a list of reward functions"))
        ELSE Raise(c7, UploadError(c7))

\* lines 786-789
ModelNameOk(policy) ==
    policy.model_name_or_path # NoneVal /\ policy.model_name_or_path # Str("")

\* ShardOk that rejects the auto-infer value -1
ShardOk_Positive(par) == par.dp_shard_size > 0

\* lines 793-796
ShardOk(par) == par.dp_shard_size >= -1 /\ par.dp_shard_size # 0

\* ReplicateOk that accepts every positive replicate degree
ReplicateOk_Positive(par) == par.dp_replicate_size >= 1

\* lines 797-799
ReplicateOk(par) == par.dp_replicate_size = 1

validate(c) ==
    LET par == c.policy.parallelism
    IN  IF ~ModelNameOk(c.policy)
        THEN Raise(c, AssertionError("model_name_or_path is required"))
        ELSE IF ~(par.tp_size > 0)
        THEN Raise(c, AssertionError("tp_size must be greater than 0"))
        ELSE IF ~(par.cp_size > 0)
        THEN Raise(c, AssertionError("cp_size must be greater than 0"))
        ELSE IF ~(par.pp_size > 0)
        THEN Raise(c, AssertionError("pp_size must be greater than 0"))
        ELSE IF ~ShardOk(par)
        THEN Raise(c, AssertionError("dp_shard_size must be greater than 0 or -1 to be auto-inferred"))
        ELSE IF ~ReplicateOk(par)
        THEN Raise(c, AssertionError("dp_replicate_size must be 1 for dynamic scaling purpose"))
        ELSE IF PipelineError(c) # NoError
        THEN Raise(c, PipelineError(c))
        ELSE validate_policy(c)

----------------------------------------------------------------------------
(* config_hash *)

\* a value the json encoder has no serialization for (a set, a torch.dtype)
Opaque == [object |-> "torch.bfloat16"]

\* the attributes whose values are tagged (union-typed) values
UnionFields ==
    {"model_name_or_path", "upload_s3", "reward_function", "dataset_train_split",
     "dataloader_prefetch_factor"}

\* dataclasses.is_dataclass on a dataclass instance, a dict or a tagged value
is_dataclass(v) == "class" \in DOMAIN v

\* dataclasses.asdict: the attributes as a dict, nested dataclasses converted
RECURSIVE asdict(_)
asdict(obj) ==
    [k \in DOMAIN obj \ {"class"} |->
        IF k \in DataclassFields THEN asdict(obj[k]) ELSE obj[k]]

\* whether json.dumps has an encoding for every value of the dict
RECURSIVE Serializable(_)
Serializable(d) ==
    \A k \in DOMAIN d :
        IF k \in DataclassFields THEN Serializable(d[k])
        ELSE IF k \in UnionFields THEN "object" \notin DOMAIN d[k]
        ELSE TRUE

\* json.dumps(d): the text (kept symbolic) or TypeError
json_dumps(d) ==
    IF Serializable(d)
    THEN [err |-> NoError, text |-> [json |-> d]]
    ELSE [err |-> TypeError("Object is not JSON serializable"), text |-> NoneVal]

\* hashlib.md5(text.encode()).hexdigest(), the 32 hex digits kept symbolic
md5_hexdigest(text) == [md5 |-> text]

NotHashed == [called |-> FALSE]

\* lines 37-44
config_hash(c) ==
    IF is_dataclass(c)
    THEN LET j == json_dumps(asdict(c))
         IN  IF j.err # NoError
             THEN [called |-> TRUE, err |-> j.err, value |-> NoneVal]
             ELSE [called |-> TRUE, err |-> NoError, value |-> md5_hexdigest(j.text)]
    ELSE [called |-> TRUE, err |-> NoError, value |-> Str("unhashable")]

----------------------------------------------------------------------------
(* Config.from_dict *)

\* datetime.now().strftime("%Y%m%d%H%M%S") at clock reading t (t < 10)
strftime(t) == "2025010112000" \o ToString(t)

\* os.path.join(a, b) for a relative b and an a without a trailing separator
os_path_join(a, b) == IF a = "" THEN b ELSE a \o "/" \o b

\* NeedsTimestamp that ignores a timestamp already present
NeedsTimestamp_Always(train) == TRUE

\* lines 756-759: whether the train mapping gets a fresh timestamp
NeedsTimestamp(train) ==
    "timestamp" \notin DOMAIN train \/ train["timestamp"] = ""

\* lines 754-766: the stamping of the override mapping.  The timestamp is
\* written first; reading a missing output_dir then raises KeyError.
Stamp(data, t) ==
    IF "train" \in DOMAIN data /\ NeedsTimestamp(data["train"])
    THEN LET tr1 == Put(data["train"], "timestamp", strftime(t))
         IN  IF "output_dir" \notin DOMAIN tr1
             THEN [err |-> KeyError("output_dir"), data |-> Put(data, "train", tr1)]
             ELSE [err |-> NoError,
                   data |-> Put(data, "train",
                                Put(tr1, "output_dir",
                                    os_path_join(tr1["output_dir"], tr1["timestamp"])))]
    ELSE [err |-> NoError, data |-> data]

DiscriminatorKeys == {"temperature", "epsilon_low", "epsilon_high", "kl_beta"}

\* ResolvePolicy with kl_beta missing from the key list
ResolvePolicy_NoKlBeta(train_policy_data) ==
    IF \E key \in DiscriminatorKeys \ {"kl_beta"} : key \in DOMAIN train_policy_data
    THEN GrpoConfig
    ELSE SFTDataConfig

\* lines 773-779: the variant instantiated for a train_policy mapping
ResolvePolicy(train_policy_data) ==
    IF \E key \in DiscriminatorKeys : key \in DOMAIN train_policy_data
    THEN GrpoConfig
    ELSE SFTDataConfig

\* lines 768-779
Resolve(c, data) ==
    IF "train" \in DOMAIN data /\ "train_policy" \in DOMAIN data["train"]
    THEN [c EXCEPT !.train.train_policy = ResolvePolicy(data["train"]["train_policy"])]
    ELSE c

\* cosmos_reason1.utils.util.update_dataclass_with_dict: every attribute of
\* obj named by data is replaced by data's value, a nested dataclass being
\* merged recursively; keys that name no attribute of obj change nothing.
RECURSIVE update_dataclass_with_dict(_, _)
update_dataclass_with_dict(obj, data) ==
    [k \in DOMAIN obj |->
        IF k # "class" /\ k \in DOMAIN data
        THEN IF k \in DataclassFields
             THEN update_dataclass_with_dict(obj[k], data[k])
             ELSE data[k]
        ELSE obj[k]]

\* The construction checks run again on a section the merge has written:
\* the __post_init__ of train_policy, which may also normalize it.
MergePolicy(merged, data) ==
    IF "train" \in DOMAIN data /\ "train_policy" \in DOMAIN data["train"]
    THEN LET r == policy_post_init(merged.train.train_policy)
         IN  [err |-> r.err, config |-> [merged EXCEPT !.train.train_policy = r.obj]]
    ELSE [err |-> NoError, config |-> merged]

\* The construction checks run again on a section the merge has written:
\* TrainingConfig.__post_init__ (which runs the checkpoint's).
MergeError(merged, data) ==
    IF "train" \in DOMAIN data
    THEN TrainingConfig_post_init(merged.train)
    ELSE NoError

----------------------------------------------------------------------------
(* Inputs *)

DiscMaps == {[k \in S |-> "0.7"] : S \in SUBSET DiscriminatorKeys}

ExtraPolicy ==
    {EmptyDict,
     "dataset_name" :> "foo",
     "system_prompt" :> "be brief",
     "reward_function" :> Str("single_choice"),
     "reward_function" :> List(<<"single_choice">>),
     "reward_function" :> List(<<>>),
     "dataset_train_split" :> Str("train"),
     "dataset_train_split" :> List(<<"train">>),
     ("reward_function" :> Str("format")) @@ ("dataset_train_split" :> Str("train")),
     "mini_batch" :> 4,
     "variant" :> "dapo",
     "variant" :> "ppo",
     ("dataloader_num_workers" :> -1) @@ ("dataloader_prefetch_factor" :> IntVal(2)),
     ("dataloader_num_workers" :> 4) @@ ("dataloader_prefetch_factor" :> IntVal(2)),
     "dataloader_prefetch_factor" :> IntVal(2),
     "type" :> "grpo",
     "type" :> "sft"}

PolicyOverrides == {d @@ e : d \in DiscMaps, e \in ExtraPolicy}

StampOverrides ==
    {ts @@ od : ts \in {EmptyDict, "timestamp" :> "", "timestamp" :> "20240101000000"},
                od \in {EmptyDict, "output_dir" :> "/exp"}}

FlagOverrides ==
    {EmptyDict,
     "async_tp_enabled" :> TRUE,
     ("async_tp_enabled" :> TRUE) @@ ("compile" :> FALSE),
     ("async_tp_enabled" :> TRUE) @@ ("compile" :> TRUE),
     "compile" :> FALSE}

CkptOverrides ==
    {EmptyDict}
    \cup {"ckpt" :> ("save_freq" :> f) : f \in {-1, 0, 5}}
    \cup {"ckpt" :> ("save_mode" :> m) : m \in {"sync", "lazy"}}
    \cup {"ckpt" :> ("upload_s3" :> u) : u \in {Str("weekly"), Str("final"), Bool(TRUE)}}

ParallelismOverrides ==
    {"dp_replicate_size" :> 2,
     "dp_shard_size" :> 0,
     "dp_shard_size" :> -2,
     "dp_shard_size" :> 1,
     ("pp_size" :> 4) @@ ("pp_micro_batch_size" :> 2),
     "pp_size" :> 3,
     "tp_size" :> 0,
     ("tp_size" :> 4) @@ ("cp_size" :> 2)}

PolicySections ==
    {EmptyDict, "policy" :> ("model_name_or_path" :> Str(""))}
    \cup {"policy" :> ("parallelism" :> p) : p \in ParallelismOverrides}

\* overrides that vary the timestamp, the output directory and train_policy
PolicyFamily ==
    {"train" :> s : s \in StampOverrides}
    \cup {"train" :> (s @@ ("train_policy" :> p)) :
             s \in StampOverrides, p \in PolicyOverrides}

\* overrides that vary the flags, the checkpoint section and the parallelism
RuleFamily ==
    {("train" :> (("output_dir" :> "/exp") @@ f @@ k @@ tp)) @@ ps :
        f \in FlagOverrides, k \in CkptOverrides, ps \in PolicySections,
        tp \in {EmptyDict,
                "train_policy" :> (("temperature" :> "0.7")
                                   @@ ("reward_function" :> Str("format")))}}

\* overrides without a train section
BareFamily == PolicySections \cup {"redis" :> "6379"}

Overrides == PolicyFamily \cup RuleFamily \cup BareFamily

\* the train_policy objects of the trees handed to validate directly
TreePolicies ==
    {SFTDataConfig,
     [SFTDataConfig EXCEPT !.dataset_train_split = Str("train")]}
    \cup {[GrpoConfig EXCEPT !.reward_function = r, !.dataset_train_split = sp] :
             r \in {List(<<>>), Str("format"), List(<<"format">>)},
             sp \in {List(<<>>), Str("train")}}

\* trees that differ from the defaults in the parallelism and the batch size
ParallelismTrees ==
    {[Config EXCEPT
        !.policy.parallelism.tp_size = tp,
        !.policy.parallelism.cp_size = cp,
        !.policy.parallelism.pp_size = pp,
        !.policy.parallelism.pp_micro_batch_size = mb,
        !.policy.parallelism.dp_shard_size = shard,
        !.policy.parallelism.dp_replicate_size = rep,
        !.train.train_batch_per_replica = batch] :
        tp \in 0..MaxDegree, cp \in 0..MaxDegree,
        pp \in 0..MaxPP, mb \in 0..MaxMicro,
        shard \in -2..MaxShard, rep \in 0..MaxDegree,
        batch \in {6, 8}}

\* trees that break several rules at once
RuleTrees ==
    {[Config EXCEPT
        !.policy.model_name_or_path = name,
        !.policy.parallelism.tp_size = deg[1],
        !.policy.parallelism.cp_size = deg[2],
        !.policy.parallelism.pp_size = pipe[1],
        !.policy.parallelism.pp_micro_batch_size = pipe[2],
        !.policy.parallelism.dp_shard_size = shard,
        !.policy.parallelism.dp_replicate_size = rep,
        !.train.train_policy = pol,
        !.train.ckpt.upload_s3 = up] :
        name \in {NoneVal, Str(""), Str("Qwen/Qwen2.5-VL-7B-Instruct")},
        deg \in {<<2, 1>>, <<0, 1>>, <<2, 0>>, <<0, 0>>},
        pipe \in {<<1, 1>>, <<0, 1>>, <<1, 0>>, <<2, 0>>, <<2, 3>>, <<4, 3>>,
                  <<3, 1>>, <<2, 1>>},
        shard \in {-1, 0}, rep \in {1, 2},
        pol \in TreePolicies,
        up \in {Bool(FALSE), Bool(TRUE), Str(""), Str("final"), Str("all"),
                Str("weekly")}}

\* the trees handed to validate directly
Trees == ParallelismTrees \cup RuleTrees

\* the objects handed to config_hash besides the configs from_dict returns
HashInputs ==
    {EmptyDict, "train" :> EmptyDict, Str("config"), NoneVal, List(<<>>),
     TrainingConfig, PolicyConfig, CheckpointConfig, GrpoConfig,
     [Config EXCEPT !.policy.model_name_or_path = Opaque],
     [CheckpointConfig EXCEPT !.upload_s3 = Opaque],
     [GrpoConfig EXCEPT !.reward_function = Opaque]}

NoOutcome == [pc |-> "none"]

----------------------------------------------------------------------------
(* The state machine *)

Init ==
    /\ \/ config_data \in Overrides /\ config = Config /\ pc = "idle"
       \/ config_data = EmptyDict /\ config \in Trees /\ pc = "tree"
       \/ config_data = EmptyDict /\ config \in HashInputs /\ pc = "object"
    /\ err = NoError
    /\ now = 1
    /\ calls = 0
    /\ entry = EmptyDict
    /\ first = NoOutcome
    /\ before = Config
    /\ hashed = NotHashed
    /\ validations = 0

\* the wall clock advances between calls
Tick ==
    /\ pc = "idle"
    /\ now < MaxClock
    /\ now' = now + 1
    /\ UNCHANGED <<config_data, config, pc, err, calls, entry, first, before, hashed,
                   validations>>

\* from_dict, lines 752-766
FromDictStamp ==
    /\ pc = "idle"
    /\ calls < MaxCalls
    /\ calls' = calls + 1
    /\ entry' = config_data
    /\ config' = Config
    /\ LET r == Stamp(config_data, now)
       IN  /\ config_data' = r.data
           /\ err' = r.err
           /\ pc' = IF r.err = NoError THEN "stamped" ELSE "raised"
    /\ validations' = 0
    /\ UNCHANGED <<now, first, before, hashed>>

\* from_dict, lines 768-779
FromDictResolve ==
    /\ pc = "stamped"
    /\ config' = Resolve(config, config_data)
    /\ pc' = "resolved"
    /\ UNCHANGED <<config_data, err, now, calls, entry, first, before, hashed,
                   validations>>

\* from_dict, line 781
FromDictMerge ==
    /\ pc = "resolved"
    /\ LET p == MergePolicy(update_dataclass_with_dict(config, config_data), config_data)
           e == IF p.err # NoError THEN p.err ELSE MergeError(p.config, config_data)
       IN  /\ config' = p.config
           /\ err' = e
           /\ pc' = IF e = NoError THEN "merged" ELSE "raised"
    /\ UNCHANGED <<config_data, now, calls, entry, first, before, hashed, validations>>

\* Config.validate, called by from_dict (lines 782-783) or on a tree, and
\* called again on a tree it has accepted
Validate ==
    /\ \/ pc \in {"merged", "tree"}
       \/ pc = "returned" /\ validations < MaxValidations
    /\ validations' = validations + 1
    /\ before' = config
    /\ LET r == validate(config)
       IN  /\ config' = r.config
           /\ err' = r.err
           /\ pc' = IF r.err = NoError THEN "returned" ELSE "raised"
    /\ UNCHANGED <<config_data, now, calls, entry, first, hashed>>

\* the caller hands the same mapping to from_dict again
CallAgain ==
    /\ pc \in {"returned", "raised"}
    /\ calls >= 1
    /\ calls < MaxCalls
    /\ first' = IF calls = 1 THEN [pc |-> pc, config |-> config, err |-> err] ELSE first
    /\ pc' = "idle"
    /\ err' = NoError
    /\ hashed' = NotHashed
    /\ UNCHANGED <<config_data, config, now, calls, entry, before, validations>>

\* a collaborator calls config_hash on a returned config or on another object
ConfigHash ==
    /\ pc \in {"returned", "object"}
    /\ ~hashed.called
    /\ hashed' = config_hash(config)
    /\ UNCHANGED <<config_data, config, pc, err, now, calls, entry, first, before,
                   validations>>

Next ==
    \/ Tick
    \/ FromDictStamp
    \/ FromDictResolve
    \/ FromDictMerge
    \/ Validate
    \/ CallAgain
    \/ ConfigHash

Spec == Init /\ [][Next]_vars

----------------------------------------------------------------------------
(* Properties *)

Ended == pc \in {"returned", "raised"}

HasTrainPolicy(data) ==
    "train" \in DOMAIN data /\ "train_policy" \in DOMAIN data["train"]

\* C1: once from_dict has resolved the variant of an override that has a
\* train.train_policy mapping, train_policy is a default GrpoConfig if one of
\* temperature, epsilon_low, epsilon_high, kl_beta is a key of the mapping
\* and a default SFTDataConfig otherwise, whatever other keys it has.
C1_VariantByDiscriminator ==
    (pc = "resolved" /\ HasTrainPolicy(config_data)) =>
        LET keys == DOMAIN config_data["train"]["train_policy"]
        IN  config.train.train_policy =
                IF keys \cap {"temperature", "epsilon_low", "epsilon_high", "kl_beta"} # {}
                THEN GrpoConfig
                ELSE SFTDataConfig

\* C1 witness: kl_beta alone selects GrpoConfig
C1_Witness ==
    /\ pc = "resolved"
    /\ HasTrainPolicy(config_data)
    /\ DOMAIN config_data["train"]["train_policy"] = {"kl_beta"}
    /\ config.train.train_policy.class = "GrpoConfig"

TemperatureOnly == "train" :> ("train_policy" :> ("temperature" :> "0.7"))
DatasetOnly == "train" :> ("train_policy" :> ("dataset_name" :> "foo"))

\* C2: a first from_dict call on {train: {train_policy: {temperature: 0.7}}}
\* returns a GrpoConfig policy, on {train: {train_policy: {dataset_name:
\* "foo"}}} it returns an SFTDataConfig policy, and on the empty override it
\* returns an SFTDataConfig policy.
C2_ExamplesComplete ==
    (Ended /\ calls = 1) =>
        /\ entry = TemperatureOnly =>
              pc = "returned" /\ config.train.train_policy.class = "GrpoConfig"
        /\ entry = DatasetOnly =>
              pc = "returned" /\ config.train.train_policy.class = "SFTDataConfig"
        /\ entry = EmptyDict =>
              pc = "returned" /\ config.train.train_policy.class = "SFTDataConfig"

CarriesTimestamp(data) ==
    /\ "train" \in DOMAIN data
    /\ "timestamp" \in DOMAIN data["train"]
    /\ data["train"]["timestamp"] # ""

\* C3: a from_dict call that returns on a mapping which carried a non-empty
\* train.timestamp leaves the mapping as it was, its result has that
\* timestamp and the mapping's output_dir (the default when the mapping has
\* none), and a later call's result equals the first call's result.
C3_TimestampIdempotent ==
    (pc = "returned" /\ calls >= 1 /\ CarriesTimestamp(entry)) =>
        /\ config_data = entry
        /\ config.train.timestamp = entry["train"]["timestamp"]
        /\ config.train.output_dir =
              IF "output_dir" \in DOMAIN entry["train"]
              THEN entry["train"]["output_dir"]
              ELSE "./outputs"
        /\ (calls >= 2 /\ first.pc = "returned") => config = first.config

\* C3 witness: a second call, at a later clock reading, on a mapping stamped
\* by the first call
C3_Witness ==
    /\ pc = "returned"
    /\ calls = 2
    /\ first.pc = "returned"
    /\ now = 2
    /\ CarriesTimestamp(entry)
    /\ "output_dir" \in DOMAIN entry["train"]
    /\ entry["train"]["timestamp"] = strftime(1)
    /\ entry["train"]["output_dir"] = "/exp/" \o strftime(1)

\* C4: a first from_dict call on an override whose train section has no
\* timestamp, or an empty one, does not fail for want of train.output_dir,
\* and what it returns has output_dir = base joined with the timestamp,
\* the base being the override's output_dir or else "./outputs".
C4_StampsOntoBase ==
    (Ended /\ calls = 1 /\ "train" \in DOMAIN entry /\ ~CarriesTimestamp(entry)) =>
        /\ err.kind # "KeyError"
        /\ pc = "returned" =>
              /\ config.train.timestamp # ""
              /\ config.train.output_dir =
                    (IF "output_dir" \in DOMAIN entry["train"]
                     THEN entry["train"]["output_dir"]
                     ELSE "./outputs") \o "/" \o config.train.timestamp

\* validate was called directly on a tree and has ended
Direct == calls = 0 /\ Ended

\* the tree differs from the defaults in the five parallelism degrees only
OnlyDegreesSet(c) ==
    c = [Config EXCEPT
            !.policy.parallelism.tp_size = c.policy.parallelism.tp_size,
            !.policy.parallelism.cp_size = c.policy.parallelism.cp_size,
            !.policy.parallelism.pp_size = c.policy.parallelism.pp_size,
            !.policy.parallelism.dp_shard_size = c.policy.parallelism.dp_shard_size,
            !.policy.parallelism.dp_replicate_size = c.policy.parallelism.dp_replicate_size]

AdmissibleDegrees(par) ==
    /\ par.tp_size >= 1
    /\ par.cp_size >= 1
    /\ par.pp_size >= 1
    /\ (par.dp_shard_size = -1 \/ par.dp_shard_size > 0)
    /\ par.dp_replicate_size = 1

\* C5 as stated: with every other field at its default, validate succeeds
\* for all tp_size, cp_size, pp_size >= 1, dp_shard_size = -1 or > 0 and
\* dp_replicate_size = 1.
C5_AllDegreesPass ==
    (Direct /\ OnlyDegreesSet(before) /\ AdmissibleDegrees(before.policy.parallelism))
        => pc = "returned"

\* C5 amended: ... validate succeeds for these settings when pp_size = 1 or
\* pp_size divides the default number of micro-batches (8 / 1).
C5_DegreesPassWhenPipelineDivides ==
    (/\ Direct
     /\ OnlyDegreesSet(before)
     /\ AdmissibleDegrees(before.policy.parallelism)
     /\ \/ before.policy.parallelism.pp_size = 1
        \/ (TrainingConfig.train_batch_per_replica
              \div ParallelismConfig.pp_micro_batch_size)
           % before.policy.parallelism.pp_size = 0)
        => pc = "returned" /\ config = before

\* C5 witness: a pipeline of 4 stages with an explicit shard degree passes
C5_Witness ==
    /\ Direct
    /\ pc = "returned"
    /\ OnlyDegreesSet(before)
    /\ before.policy.parallelism.pp_size = 4
    /\ before.policy.parallelism.dp_shard_size = 2
    /\ before.policy.parallelism.tp_size = 1

ShardAdmissible(par) == par.dp_shard_size = -1 \/ par.dp_shard_size >= 1

\* C6: validate fails on every tree whose dp_replicate_size is not 1 or
\* whose dp_shard_size is 0 or below -1, and whatever from_dict or validate
\* returns has dp_replicate_size = 1 and dp_shard_size = -1 or >= 1.
C6_ReplicateAndShard ==
    /\ (Direct /\ (\/ before.policy.parallelism.dp_replicate_size # 1
                   \/ ~ShardAdmissible(before.policy.parallelism)))
          => pc = "raised" /\ err.kind = "AssertionError"
    /\ pc = "returned" =>
          /\ config.policy.parallelism.dp_replicate_size = 1
          /\ ShardAdmissible(config.policy.parallelism)

\* C6 witness: from_dict on an override with dp_replicate_size = 2 is stopped
\* by the replicate rule
C6_Witness ==
    /\ calls = 1
    /\ pc = "raised"
    /\ config.policy.parallelism.dp_replicate_size = 2
    /\ err = AssertionError("dp_replicate_size must be 1 for dynamic scaling purpose")

PipelineMessages ==
    {"pp_micro_batch_size must be greater than 0",
     "train_batch must be divisible by pp_micro_batch_size",
     "train_batch / pp_micro_batch_size must be divisible by pp_size"}

\* C7: with pp_size > 1 validate succeeds only if pp_micro_batch_size > 0,
\* the batch is divisible by it and the quotient is divisible by pp_size
\* (batch 8, pp 4: micro-batch 2 passes, 3 fails); with pp_size = 1 none of
\* the three is checked, so a micro-batch size <= 0 or one that does not
\* divide the batch does not fail validation.
C7_PipelineRule ==
    Direct =>
        LET par == before.policy.parallelism
            batch == before.train.train_batch_per_replica
        IN  /\ (par.pp_size > 1 /\ pc = "returned") =>
                  /\ par.pp_micro_batch_size > 0
                  /\ batch % par.pp_micro_batch_size = 0
                  /\ (batch \div par.pp_micro_batch_size) % par.pp_size = 0
            /\ par.pp_size = 1 => err.msg \notin PipelineMessages
            /\ (/\ par.pp_size = 1
                /\ before = [Config EXCEPT
                       !.policy.parallelism.pp_micro_batch_size = par.pp_micro_batch_size,
                       !.train.train_batch_per_replica = batch])
                  => pc = "returned"
            /\ before = [Config EXCEPT !.policy.parallelism.pp_size = 4,
                                       !.policy.parallelism.pp_micro_batch_size = 2]
                  => pc = "returned"
            /\ before = [Config EXCEPT !.policy.parallelism.pp_size = 4,
                                       !.policy.parallelism.pp_micro_batch_size = 3]
                  => err = AssertionError("train_batch must be divisible by pp_micro_batch_size")

\* C7 witness: batch 8, pp 4, micro-batch 2 passes
C7_Witness ==
    /\ Direct
    /\ pc = "returned"
    /\ before = [Config EXCEPT !.policy.parallelism.pp_size = 4,
                               !.policy.parallelism.pp_micro_batch_size = 2]

HasKey(data, section, key) ==
    section \in DOMAIN data /\ key \in DOMAIN data[section]

\* the override sets a value that rule R9 or R10 forbids
SetsForbidden(data) ==
    \/ /\ HasKey(data, "train", "async_tp_enabled")
       /\ HasKey(data, "train", "compile")
       /\ data["train"]["async_tp_enabled"]
       /\ ~data["train"]["compile"]
    \/ /\ HasKey(data, "train", "ckpt")
       /\ "save_freq" \in DOMAIN data["train"]["ckpt"]
       /\ data["train"]["ckpt"]["save_freq"] <= 0
    \/ /\ HasKey(data, "train", "ckpt")
       /\ "save_mode" \in DOMAIN data["train"]["ckpt"]
       /\ data["train"]["ckpt"]["save_mode"] \notin {"async", "sync"}

AsyncWithCompile ==
    "train" :> (("output_dir" :> "/exp") @@ ("async_tp_enabled" :> TRUE)
                @@ ("compile" :> TRUE))

RuleTable(c) ==
    LET par == c.policy.parallelism
        batch == c.train.train_batch_per_replica
        pol == c.train.train_policy
        up == c.train.ckpt.upload_s3
    IN  << [msg |-> "model_name_or_path is required",
            bad |-> c.policy.model_name_or_path \in {NoneVal, Str("")}],
           [msg |-> "tp_size must be greater than 0", bad |-> par.tp_size < 1],
           [msg |-> "cp_size must be greater than 0", bad |-> par.cp_size < 1],
           [msg |-> "pp_size must be greater than 0", bad |-> par.pp_size < 1],
           [msg |-> "dp_shard_size must be greater than 0 or -1 to be auto-inferred",
            bad |-> ~ShardAdmissible(par)],
           [msg |-> "dp_replicate_size must be 1 for dynamic scaling purpose",
            bad |-> par.dp_replicate_size # 1],
           [msg |-> "pp_micro_batch_size must be greater than 0",
            bad |-> par.pp_size > 1 /\ par.pp_micro_batch_size < 1],
           [msg |-> "train_batch must be divisible by pp_micro_batch_size",
            bad |-> /\ par.pp_size > 1
                    /\ par.pp_micro_batch_size >= 1
                    /\ batch % par.pp_micro_batch_size # 0],
           [msg |-> "train_batch / pp_micro_batch_size must be divisible by pp_size",
            bad |-> /\ par.pp_size > 1
                    /\ par.pp_micro_batch_size >= 1
                    /\ (batch \div par.pp_micro_batch_size) % par.pp_size # 0],
           [msg |-> "reward_function must be a list of reward functions",
            bad |-> pol.class = "GrpoConfig" /\ pol.reward_function = List(<<>>)],
           [msg |-> "upload_s3 must be one of ['final', 'all'] or False",
            bad |-> up \notin {Bool(FALSE), Str(""), Str("final"), Str("all")}] >>

\* the message of the earliest violated rule, "" when no rule is violated
FirstViolated(c) ==
    LET t == RuleTable(c)
        badRules == {i \in DOMAIN t : t[i].bad}
    IN  IF badRules = {} THEN ""
        ELSE t[CHOOSE i \in badRules : \A j \in badRules : i <= j].msg

\* some rule ahead of the upload_s3 rule is violated
EarlierViolated(c) ==
    \E i \in 1..(Len(RuleTable(c)) - 1) : RuleTable(c)[i].bad

\* C9: validate fails with ValueError when upload_s3 is truthy and is not
\* "final" or "all" ("weekly", the boolean True), it does not fail on
\* upload_s3 when that is False, "final" or "all", and the failures of the
\* rules ahead of it are of another kind (AssertionError).
C9_UploadChoice ==
    Direct =>
        LET up == before.train.ckpt.upload_s3
            unlisted == up \in {Bool(TRUE), Str("weekly")}
            allowed == up \in {Bool(FALSE), Str("final"), Str("all")}
        IN  /\ (unlisted /\ ~EarlierViolated(before)) =>
                  pc = "raised" /\ err.kind = "ValueError"
            /\ allowed => err.kind # "ValueError"
            /\ (allowed /\ ~EarlierViolated(before)) => pc = "returned"
            /\ EarlierViolated(before) => pc = "raised" /\ err.kind = "AssertionError"

\* C9 witness: the boolean True is refused with ValueError
C9_Witness ==
    /\ Direct
    /\ before.train.ckpt.upload_s3 = Bool(TRUE)
    /\ err.kind = "ValueError"

\* C10: validate reports the earliest violated rule in the order model
\* name, tp_size, cp_size, pp_size, dp_shard_size, dp_replicate_size,
\* pipeline conditions, reward_function, upload_s3, and a failure ahead of
\* the upload_s3 rule leaves the tree as it was (no later normalization).
C10_FailFast ==
    Direct =>
        /\ err.msg = FirstViolated(before)
        /\ pc = "raised" <=> FirstViolated(before) # ""
        /\ (pc = "raised" /\ EarlierViolated(before)) => config = before

\* C10 witness: three rules are violated, the tree holds bare strings that a
\* later step would normalize, and the first rule is the one reported
C10_Witness ==
    /\ Direct
    /\ before.policy.model_name_or_path = Str("")
    /\ before.policy.parallelism.dp_replicate_size = 2
    /\ before.train.ckpt.upload_s3 = Str("weekly")
    /\ before.train.train_policy.dataset_train_split = Str("train")
    /\ err = AssertionError("model_name_or_path is required")
    /\ config = before

\* C11: config_hash never raises: it returns a hex digest or "unhashable",
\* and it returns "unhashable" for an object that is no dataclass and for a
\* dataclass that holds a value json cannot serialize.
C11_HashNeverRaises ==
    hashed.called =>
        /\ hashed.err = NoError
        /\ hashed.value = Str("unhashable") \/ "md5" \in DOMAIN hashed.value
        /\ ~is_dataclass(config) => hashed.value = Str("unhashable")
        /\ (is_dataclass(config) /\ ~Serializable(asdict(config))) =>
              hashed.value = Str("unhashable")

\* the defaults of the class of a train_policy object
VariantDefaults(p) == IF p.class = "GrpoConfig" THEN GrpoConfig ELSE SFTDataConfig

\* the sub-mapping of data under key k, empty when data has no such key
SubMapping(data, k) == IF k \in DOMAIN data THEN data[k] ELSE EmptyDict

\* the value the override gives leaf k, or else its default
Expected(dflt, data, k) == IF k \in DOMAIN data THEN data[k] ELSE dflt[k]

\* every leaf of obj holds the value data names for it, or else its default
RECURSIVE HoldsOverride(_, _, _)
HoldsOverride(obj, dflt, data) ==
    \A k \in DOMAIN obj \ {"class"} :
        IF k \in DataclassFields
        THEN HoldsOverride(obj[k],
                           IF k = "train_policy" THEN VariantDefaults(obj[k]) ELSE dflt[k],
                           SubMapping(data, k))
        ELSE obj[k] = Expected(dflt, data, k)

Normalized(obj, dflt, data, k) ==
    LET e == Expected(dflt, data, k)
    IN  IF k = "dataset_train_split"
        THEN IF isinstance_str(e) THEN List(<<e.str>>) ELSE e
        ELSE IF k = "reward_function"
        THEN IF obj.type = "grpo" /\ isinstance_str(e) THEN List(<<e.str>>) ELSE e
        ELSE IF k = "dataloader_num_workers"
        THEN IF e <= 0 THEN 0 ELSE e
        ELSE IF k = "dataloader_prefetch_factor"
        THEN IF Expected(dflt, data, "dataloader_num_workers") <= 0 THEN NoneVal ELSE e
        ELSE e

RECURSIVE HoldsNormalized(_, _, _)
HoldsNormalized(obj, dflt, data) ==
    \A k \in DOMAIN obj \ {"class"} :
        IF k \in DataclassFields
        THEN HoldsNormalized(obj[k],
                             IF k = "train_policy" THEN VariantDefaults(obj[k]) ELSE dflt[k],
                             SubMapping(data, k))
        ELSE obj[k] = Normalized(obj, dflt, data, k)

IsList(v) == "list" \in DOMAIN v

\* C13: in every config from_dict returns, dataset_train_split is a list
\* and, if train_policy is the reinforcement variant (a GrpoConfig),
\* reward_function is a non-empty list.
C13_ListForms ==
    (pc = "returned" /\ calls >= 1) =>
        LET pol == config.train.train_policy
        IN  /\ IsList(pol.dataset_train_split)
            /\ pol.class = "GrpoConfig" =>
                  IsList(pol.reward_function) /\ len(pol.reward_function) > 0

\* C14: from variant resolution on (during merge, during validation and in
\* the returned config) train_policy.type is "grpo" exactly when
\* train_policy is a GrpoConfig and "sft" exactly when it is an
\* SFTDataConfig, and validate never reads reward_function on an
\* SFTDataConfig.
C14_TagAgreesWithClass ==
    (calls >= 1 /\ pc \in {"resolved", "merged", "returned", "raised"}) =>
        LET pol == config.train.train_policy
        IN  /\ pol.type = "grpo" <=> pol.class = "GrpoConfig"
            /\ pol.type = "sft" <=> pol.class = "SFTDataConfig"
            /\ err.kind # "AttributeError"

\* C15: every config from_dict returns carries a non-empty train.timestamp,
\* also for the empty override and for overrides without a train section.
C15_TimestampNonEmpty ==
    (pc = "returned" /\ calls >= 1) => config.train.timestamp # ""

\* the tree without the two fields validate normalizes
WithoutNormalized(c) ==
    [c EXCEPT !.train.train_policy =
        [k \in DOMAIN @ \ {"reward_function", "dataset_train_split"} |-> @[k]]]

\* field f of train_policy is as it was, or was a bare string and is now the
\* one-element list of it
SameOrWrapped(f) ==
    LET old == before.train.train_policy
        new == config.train.train_policy
    IN  (f \in DOMAIN old \/ f \in DOMAIN new) =>
            /\ f \in DOMAIN old /\ f \in DOMAIN new
            /\ \/ new[f] = old[f]
               \/ isinstance_str(old[f]) /\ new[f] = List(<<old[f].str>>)

\* C16: a successful validate changes nothing but reward_function and
\* dataset_train_split, each only from a bare string to a one-element list;
\* a second validate on the resulting tree succeeds and changes nothing; a
\* validate that fails ahead of the reward_function rule changes nothing.
C16_ValidateIdempotent ==
    (validations >= 1 /\ Ended) =>
        /\ pc = "returned" =>
              /\ WithoutNormalized(config) = WithoutNormalized(before)
              /\ SameOrWrapped("reward_function")
              /\ SameOrWrapped("dataset_train_split")
        /\ validations >= 2 => pc = "returned" /\ config = before
        /\ (\E i \in 1..(Len(RuleTable(before)) - 2) : RuleTable(before)[i].bad) =>
              pc = "raised" /\ config = before

\* C16 witness: the second validate on a tree whose bare strings the first
\* one turned into lists
C16_Witness ==
    /\ calls = 0
    /\ validations = 2
    /\ pc = "returned"
    /\ config = before
    /\ config.train.train_policy.class = "GrpoConfig"
    /\ config.train.train_policy.reward_function = List(<<"format">>)
    /\ config.train.train_policy.dataset_train_split = List(<<"train">>)

====
